---------------------------- MODULE Spec2Model ----------------------------
(***************************************************************************)
(* Model of the Frank Energie "slim" integration:                          *)
(*   - api.py    : FrankEnergie, the GraphQL client (credential, query,    *)
(*                 login, the four get_* reads, is_authenticated);         *)
(*   - sensor.py : async_setup_entry, FrankBatteryCoordinator and the      *)
(*                 trading-result sensor's state property.                 *)
(*                                                                         *)
(* Python/JSON values are tagged records, so that truthiness, dict.get and *)
(* "attribute get on a non-dict" behave as they do in Python:              *)
(*   None, Str(s), Num(n), Dict(f) (f: key -> value), List(q) (q: Seq).    *)
(* A call's outcome is a record with exc = "none" (returned val) or the    *)
(* name of the exception class raised, msg being the exception's argument. *)
(*                                                                         *)
(* The backend's responses are the inputs. A response body is null or an   *)
(* object; its data member is left out, null or an object; its errors      *)
(* member is left out, null or a list, whose entries may be objects or not.*)
(* The members the code reads with .get are left out, null or of the       *)
(* selected type; the smartBatterySessions node, which the code tests with *)
(* isinstance(node, dict), may also be a value that is no object.          *)
(*                                                                         *)
(* Three specifications: Spec (the client under any sequence of calls),    *)
(* SpecSetup (one run of async_setup_entry) and SpecPoll (the ticks of one *)
(* coordinator after setup).                                               *)
(***************************************************************************)
EXTENDS Integers, Sequences, FiniteSets, TLC

VARIABLES
    auth,          \* FrankEnergie.auth: the held credential (None or a dict)
    last,          \* the client operation that ran last: inputs and outcome
    setup,         \* async_setup_entry: position and locals
    coordinators,  \* the FrankBatteryCoordinator objects, in creation order
    registered,    \* the entity list handed to async_add_entities
    tick           \* the poll tick (_async_update_data) that ran last

vars == <<auth, last, setup, coordinators, registered, tick>>

----------------------------------------------------------------------------
(* Bounds of the model *)

MaxErrors == 2      \* longest GraphQL errors list in a response
MaxSessions == 2    \* longest sessions list in a SmartBatterySessions node
MaxDevices == 2     \* longest smartBatteries list in a discovery response

----------------------------------------------------------------------------
(* Python / JSON values *)

None == [t |-> "None"]
Str(s) == [t |-> "str", s |-> s]
Num(n) == [t |-> "int", n |-> n]
Dict(f) == [t |-> "dict", d |-> f]
List(q) == [t |-> "list", l |-> q]
EmptyDict == Dict([k \in {} |-> None])
EmptyList == List(<<>>)

\* A key left out of a dict literal while the inputs are enumerated; never a
\* value inside a JSON document.
Absent == [t |-> "absent"]

\* The dict with the given key/value pairs, pairs whose value is Absent left out.
Obj(pairs) ==
    LET keys == {pairs[i][1] : i \in {j \in 1..Len(pairs) : pairs[j][2] # Absent}}
    IN  Dict([k \in keys |->
                pairs[CHOOSE i \in 1..Len(pairs) : pairs[i][1] = k][2]])

\* bool(v)
Truthy(v) ==
    CASE v.t = "None" -> FALSE
      [] v.t = "str"  -> v.s # ""
      [] v.t = "int"  -> v.n # 0
      [] v.t = "dict" -> DOMAIN v.d # {}
      [] v.t = "list" -> Len(v.l) > 0

IsDict(v) == v.t = "dict"

\* key in d, for a dict d
Has(v, k) == k \in DOMAIN v.d

\* d.get(k, default), for a dict d
GetOr(v, k, default) == IF k \in DOMAIN v.d THEN v.d[k] ELSE default

\* d.get(k), for a dict d
Get(v, k) == GetOr(v, k, None)

\* a or b
Or(a, b) == IF Truthy(a) THEN a ELSE b

\* All sequences over S of length lo..hi.
SeqsOf(S, lo, hi) == UNION {[1..n -> S] : n \in lo..hi}

----------------------------------------------------------------------------
(* Outcomes of calls *)

Returned(v) == [exc |-> "none", msg |-> None, val |-> v]
Raised(e, m) == [exc |-> e, msg |-> m, val |-> None]

AUTH_SENTINEL == "user-error:auth-not-authorised"
AuthRequired == Raised("Exception", Str("Authentication required"))

\* The authentication error is the plain Exception("Authentication required").
IsAuthError(o) == o.exc = "Exception" /\ o.msg = Str("Authentication required")
\* The transport errors are those of the HTTP library.
IsTransportError(o) == o.exc \in {"HTTPError", "ConnectionError"}

----------------------------------------------------------------------------
(* api.py: FrankEnergie *)

\* FrankEnergie.__init__(auth_token, refresh_token): the credential held
\* after construction.
Client__init__(auth_token, refresh_token) ==
    IF Truthy(auth_token) \/ Truthy(refresh_token)
    THEN Dict([authToken |-> auth_token, refreshToken |-> refresh_token])
    ELSE None

\* FrankEnergie._headers(): the bearer token put in the Authorization header
\* (None: the header is left out).
_headers(a) ==
    LET token == IF Truthy(a)
                 THEN Or(Get(a, "authToken"), Get(a, "auth_token"))
                 ELSE None
    IN  IF Truthy(token) THEN token ELSE None

\* A variant of raise_for_status that raises for server errors only.
raise_for_status_5xx(status) == 500 <= status /\ status < 600

\* requests.Response.raise_for_status(): raises HTTPError for 4xx and 5xx.
raise_for_status(status) == 400 <= status /\ status < 600

\* A variant of the loop that looks at the first entry only.
ScanErrors_first_only(q, i) ==
    IF Len(q) = 0 THEN "none"
    ELSE IF ~IsDict(q[1]) THEN "attr"
    ELSE IF Get(q[1], "message") = Str("user-error:auth-not-authorised") THEN "auth"
    ELSE "none"

\* The loop of query() over the errors list q from entry i on: "attr" when
\* err.get fails on an entry that is no dict, "auth" when an entry's message
\* is the sentinel, "none" when the loop runs to its end.
RECURSIVE ScanErrors(_, _)
ScanErrors(q, i) ==
    IF i > Len(q) THEN "none"
    ELSE IF ~IsDict(q[i]) THEN "attr"
    ELSE IF Get(q[i], "message") = Str(AUTH_SENTINEL) THEN "auth"
    ELSE ScanErrors(q, i + 1)

\* for err in data.get("errors") or []: what the iteration yields, by the type
\* of the value (a falsy value gives the empty list; a non-empty string or dict
\* yields its characters or keys, which are strings).
ErrorsIterated(v) ==
    LET e == Or(v, EmptyList)
    IN  CASE e.t = "list" -> e.l
          [] e.t = "str"  -> <<Str("c")>>
          [] e.t = "dict" -> <<Str("k")>>
          [] OTHER        -> <<>>

\* FrankEnergie.query(query_data) with the exchange's response resp:
\*   sent   - requests.post was called;
\*   parsed - resp.json() was called (the body was inspected);
\*   logged - the errors list was written to the debug log;
\*   bearer - the token sent in the Authorization header.
query(a, resp) ==
    LET base == [sent |-> TRUE, parsed |-> FALSE, logged |-> FALSE,
                 bearer |-> _headers(a)]
        data == resp.body
        scan == ScanErrors(ErrorsIterated(Get(data, "errors")), 1)
    IN  IF resp.conn = "failed"
        THEN Raised("ConnectionError", None) @@ base
        ELSE IF raise_for_status(resp.status)
        THEN Raised("HTTPError", Num(resp.status)) @@ base
        ELSE IF IsDict(data) /\ Has(data, "errors")
        THEN CASE scan = "attr" ->
                    Raised("AttributeError", Str("get")) @@ [base EXCEPT !.parsed = TRUE]
               [] scan = "auth" ->
                    AuthRequired @@ [base EXCEPT !.parsed = TRUE]
               [] OTHER ->
                    Returned(data) @@ [base EXCEPT !.parsed = TRUE, !.logged = TRUE]
        ELSE Returned(data) @@ [base EXCEPT !.parsed = TRUE]

\* An operation that raises before any request is made.
NotSent(o) == o @@ [sent |-> FALSE, parsed |-> FALSE, logged |-> FALSE, bearer |-> None]

\* The test of login(): not data or "data" not in data or
\* not data["data"].get("login"), for a body that is None or a dict:
\* "attr" when data["data"] is no dict, else "fail" or "pass".
LoginTest(data) ==
    IF ~Truthy(data) THEN "fail"
    ELSE IF ~Has(data, "data") THEN "fail"
    ELSE IF ~IsDict(data.d["data"]) THEN "attr"
    ELSE IF ~Truthy(Get(data.d["data"], "login")) THEN "fail"
    ELSE "pass"

\* What login() raises once the test found no login payload.
LoginFailure(data) ==
    IF Truthy(data) /\ Truthy(Get(data, "errors"))
    THEN LET first == Get(data, "errors").l[1]
         IN  IF IsDict(first)
             THEN Raised("Exception", GetOr(first, "message", Str("Login failed")))
             ELSE Raised("AttributeError", Str("get"))
    ELSE Raised("Exception", Str("Login failed: empty response"))

\* FrankEnergie.login(username, password): the outcome and the credential held
\* afterwards.
login(a, resp) ==
    LET q == query(a, resp)
        t == LoginTest(q.val)
    IN  IF q.exc # "none" THEN [out |-> q, auth |-> a]
        ELSE IF t = "attr"
        THEN [out |-> Raised("AttributeError", Str("get")) @@ q, auth |-> a]
        ELSE IF t = "fail"
        THEN [out |-> LoginFailure(q.val) @@ q, auth |-> a]
        ELSE [out |-> Returned(q.val.d["data"].d["login"]) @@ q,
              auth |-> q.val.d["data"].d["login"]]

\* The guard the four get_* methods share: if not self.auth: raise.
get_guarded(a, resp) ==
    IF ~Truthy(a) THEN NotSent(AuthRequired) ELSE query(a, resp)

get_smart_batteries(a, resp) == get_guarded(a, resp)
get_smart_battery_summary(a, device_id, resp) == get_guarded(a, resp)
get_smart_battery(a, device_id, resp) == get_guarded(a, resp)
get_smart_battery_sessions(a, device_id, resp) == get_guarded(a, resp)

\* FrankEnergie.is_authenticated()
is_authenticated(a) ==
    Truthy(a) /\ (Truthy(Get(a, "authToken")) \/ Truthy(Get(a, "auth_token")))

----------------------------------------------------------------------------
(* The backend's responses, as the client's inputs *)

\* HTTP statuses: success, redirect-class, client error, server error.
Statuses == {200, 304, 401, 500}

\* Entries of a GraphQL errors list: an ordinary error, the sentinel, an
\* error without a message, and an entry that is no object.
ErrBadCreds == Obj(<< <<"message", Str("bad creds")>> >>)
ErrSentinel == Obj(<< <<"message", Str(AUTH_SENTINEL)>> >>)
ErrNoMessage == Obj(<< <<"path", Str("login")>> >>)
ErrNotObject == Str("oops")
ErrEntries == {ErrBadCreds, ErrSentinel, ErrNoMessage, ErrNotObject}

\* The "errors" member of a body: left out, null, or a list.
ErrorsValues ==
    {Absent, None} \cup {List(q) : q \in SeqsOf(ErrEntries, 0, MaxErrors)}

\* Credential material.
AuthTokens == {None, Str(""), Str("T1"), Str("T2")}
RefreshTokens == {None, Str("R1")}

\* The login payloads {authToken, refreshToken} the Login mutation selects.
LoginPayloads ==
    {Obj(<< <<"authToken", x>>, <<"refreshToken", y>> >>) :
        x \in AuthTokens, y \in RefreshTokens}

\* The "data" member of a Login response.
LoginData ==
    {Absent, None, EmptyDict, Obj(<< <<"login", None>> >>)}
    \cup {Obj(<< <<"login", p>> >>) : p \in LoginPayloads}

\* The "data" member of a response to a payload the client does not look into.
OpaqueData == {Absent, None, Obj(<< <<"x", Num(1)>> >>)}

Body(data, errors) == Obj(<< <<"data", data>>, <<"errors", errors>> >>)

HttpResponse(status, body) == [conn |-> "ok", status |-> status, body |-> body]
ConnectionFailed == [conn |-> "failed", status |-> 0, body |-> None]
NoExchange == [conn |-> "none", status |-> 0, body |-> None]

ResponsesOver(D) ==
    {HttpResponse(st, b) :
        st \in Statuses,
        b \in {None} \cup {Body(d, e) : d \in D, e \in ErrorsValues}}
    \cup {ConnectionFailed}

LoginResponses == ResponsesOver(LoginData)
QueryResponses == ResponsesOver(OpaqueData)

----------------------------------------------------------------------------
(* The client on its own: any sequence of its public operations *)

Idle == [pc |-> "idle"]

\* No client call is under way: the caller has taken the last outcome.
NoCall == [op |-> "none", prev |-> None, out |-> NotSent(Returned(None)),
           resp |-> NoExchange]

\* A call of the client: it starts when no other is under way (the calls are
\* blocking and made one at a time) and leaves its inputs and outcome in last.
ClientCall(op, out, resp) ==
    /\ last' = [op |-> op, prev |-> auth, out |-> out,
                resp |-> IF out.sent THEN resp ELSE NoExchange]
    /\ UNCHANGED <<setup, coordinators, registered, tick>>

SensorIdle ==
    /\ setup = Idle
    /\ coordinators = <<>>
    /\ registered = <<>>
    /\ tick = Idle

Init ==
    /\ \E x \in AuthTokens, y \in RefreshTokens : auth = Client__init__(x, y)
    /\ last = NoCall
    /\ SensorIdle

Query ==
    /\ last = NoCall
    /\ \E resp \in QueryResponses :
           /\ ClientCall("query", query(auth, resp), resp)
           /\ UNCHANGED auth

Login ==
    /\ last = NoCall
    /\ \E resp \in LoginResponses :
           LET r == login(auth, resp)
           IN  /\ auth' = r.auth
               /\ ClientCall("login", r.out, resp)

GetSmartBatteries ==
    /\ last = NoCall
    /\ \E resp \in QueryResponses :
           /\ ClientCall("get_smart_batteries", get_smart_batteries(auth, resp), resp)
           /\ UNCHANGED auth

GetSmartBatterySummary ==
    /\ last = NoCall
    /\ \E resp \in QueryResponses :
           /\ ClientCall("get_smart_battery_summary",
                         get_smart_battery_summary(auth, Str("d1"), resp), resp)
           /\ UNCHANGED auth

GetSmartBattery ==
    /\ last = NoCall
    /\ \E resp \in QueryResponses :
           /\ ClientCall("get_smart_battery", get_smart_battery(auth, Str("d1"), resp), resp)
           /\ UNCHANGED auth

GetSmartBatterySessions ==
    /\ last = NoCall
    /\ \E resp \in QueryResponses :
           /\ ClientCall("get_smart_battery_sessions",
                         get_smart_battery_sessions(auth, Str("d1"), resp), resp)
           /\ UNCHANGED auth

\* The caller takes the outcome of the call and goes on.
Resume ==
    /\ last # NoCall
    /\ last' = NoCall
    /\ UNCHANGED <<auth, setup, coordinators, registered, tick>>

Next ==
    \/ Query
    \/ Login
    \/ GetSmartBatteries
    \/ GetSmartBatterySummary
    \/ GetSmartBattery
    \/ GetSmartBatterySessions
    \/ Resume

Spec == Init /\ [][Next]_vars

GetOps == {"get_smart_batteries", "get_smart_battery_summary",
           "get_smart_battery", "get_smart_battery_sessions"}

----------------------------------------------------------------------------
(* sensor.py: FrankBatteryCoordinator and the trading-result sensor *)

\* FrankBatteryCoordinator.__init__: no data yet.
Coordinator__init__(device_id) ==
    [device_id |-> device_id, summary |-> None, sessions_node |-> None]

\* The closure _fetch of _async_update_data: the summary call, then the
\* sessions call; r1 and r2 are the responses of the two exchanges.
_fetch(a, device_id, r1, r2) ==
    LET summary == get_smart_battery_summary(a, device_id, r1)
        sessions == get_smart_battery_sessions(a, device_id, r2)
    IN  IF summary.exc # "none" THEN Raised(summary.exc, summary.msg)
        ELSE IF sessions.exc # "none" THEN Raised(sessions.exc, sessions.msg)
        ELSE Returned(Dict([summary |-> summary.val, sessions |-> sessions.val]))

\* ((data.get(which) or {}).get("data") or {}).get(field), for response
\* bodies that are None or a dict whose data member is None or a dict.
Extract(data, which, field) ==
    Get(Or(Get(Or(Get(data, which), EmptyDict), "data"), EmptyDict), field)

\* The window stored for a node that is a dict.
WindowOf(node) ==
    Dict([periodTradingResult |-> Get(node, "periodTradingResult"),
          sessions |-> Or(Get(node, "sessions"), EmptyList)])

\* A variant of _async_update_data that leaves the stored window alone when
\* the response has no smartBatterySessions node.
_async_update_data_keep_window(c, a, r1, r2) ==
    LET f == _fetch(a, c.device_id, r1, r2)
        data == f.val
        c1 == [c EXCEPT !.summary = Extract(data, "summary", "smartBatterySummary")]
        node == Extract(data, "sessions", "smartBatterySessions")
    IN  IF f.exc # "none"
        THEN [coord |-> c, out |-> f, warned |-> FALSE]
        ELSE IF ~Truthy(node)
        THEN [coord |-> c1, out |-> Returned(data), warned |-> TRUE]
        ELSE IF ~IsDict(node)
        THEN [coord |-> c1, out |-> Raised("AttributeError", Str("get")),
              warned |-> FALSE]
        ELSE [coord |-> [c1 EXCEPT !.sessions_node = WindowOf(node)],
              out |-> Returned(data), warned |-> FALSE]

\* FrankBatteryCoordinator._async_update_data, for the coordinator c and the
\* client credential a: the coordinator afterwards, the outcome, and whether
\* the "no smartBatterySessions" warning was logged. A fetch that raises is
\* raised out of the await before anything is stored; a node that is truthy
\* but no dict gets past line 108 and raises at node.get on line 110, after
\* the summary was stored.
_async_update_data(c, a, r1, r2) ==
    LET f == _fetch(a, c.device_id, r1, r2)
        data == f.val
        c1 == [c EXCEPT !.summary = Extract(data, "summary", "smartBatterySummary")]
        node == Extract(data, "sessions", "smartBatterySessions")
    IN  IF f.exc # "none"
        THEN [coord |-> c, out |-> f, warned |-> FALSE]
        ELSE IF ~Truthy(node)
        THEN [coord |-> [c1 EXCEPT !.sessions_node = None],
              out |-> Returned(data), warned |-> TRUE]
        ELSE IF ~IsDict(node)
        THEN [coord |-> c1, out |-> Raised("AttributeError", Str("get")),
              warned |-> FALSE]
        ELSE [coord |-> [c1 EXCEPT !.sessions_node = WindowOf(node)],
              out |-> Returned(data), warned |-> FALSE]

\* A variant of the sensor's state that tests the aggregate for truth
\* instead of for None.
TradingResult_state_truthy(c) ==
    LET node == Or(c.sessions_node, EmptyDict)
        sessions == Or(Get(node, "sessions"), EmptyList)
    IN  IF Truthy(Get(node, "periodTradingResult"))
        THEN node.d["periodTradingResult"]
        ELSE IF Truthy(sessions)
        THEN Get(sessions.l[Len(sessions.l)], "cumulativeResult")
        ELSE None

\* FrankBatteryTradingResultSensor.state, read from the coordinator c.
TradingResult_state(c) ==
    LET node == Or(c.sessions_node, EmptyDict)
        sessions == Or(Get(node, "sessions"), EmptyList)
    IN  IF Get(node, "periodTradingResult") # None
        THEN node.d["periodTradingResult"]
        ELSE IF Truthy(sessions)
        THEN Get(sessions.l[Len(sessions.l)], "cumulativeResult")
        ELSE None

\* FrankBatterySummarySensor.state, read from the coordinator c.
Summary_state(c) == Get(Or(c.summary, EmptyDict), "lastKnownStatus")

----------------------------------------------------------------------------
(* Steady-state polling: the ticks of one coordinator *)

\* Summary snapshots the backend reports.
SummaryA ==
    Obj(<< <<"lastKnownStateOfCharge", Num(80)>>, <<"lastKnownStatus", Str("CHARGING")>>,
           <<"lastUpdate", Str("2024-01-02")>>, <<"totalResult", Num(5)>> >>)
SummaryB ==
    Obj(<< <<"lastKnownStateOfCharge", Num(20)>>, <<"lastKnownStatus", Str("IDLE")>>,
           <<"lastUpdate", Str("2024-01-03")>>, <<"totalResult", Num(7)>> >>)

\* The "data" member of a SmartBatterySummary response.
SummaryData ==
    {Absent, None, EmptyDict, Obj(<< <<"smartBatterySummary", None>> >>)}
    \cup {Obj(<< <<"smartBatterySummary", x>> >>) : x \in {SummaryA, SummaryB}}

\* Session records, in the order of their dates.
Session10 ==
    Obj(<< <<"date", Str("2024-01-01")>>, <<"cumulativeResult", Num(10)>>,
           <<"result", Num(10)>>, <<"status", Str("COMPLETE")>> >>)
Session15 ==
    Obj(<< <<"date", Str("2024-01-02")>>, <<"cumulativeResult", Num(15)>>,
           <<"result", Num(5)>>, <<"status", Str("ACTIVE")>> >>)

\* smartBatterySessions nodes that are objects: the aggregate left out, null,
\* zero or a number; the sessions left out, null or a list.
SessionNodes ==
    {Obj(<< <<"periodTradingResult", ptr>>, <<"sessions", ss>> >>) :
        ptr \in {None, Num(0), Num(42)},
        ss \in {Absent, None}
               \cup {List(q) : q \in SeqsOf({Session10, Session15}, 0, MaxSessions)}}
    \cup {Obj(<< <<"sessions", List(<<Session10>>)>> >>),
          Obj(<< <<"deviceId", Str("d1")>> >>)}

\* The "data" member of a SmartBatterySessions response; the last node is a
\* truthy value that is no object.
SessionsData ==
    {Absent, None, EmptyDict, Obj(<< <<"smartBatterySessions", None>> >>),
     Obj(<< <<"smartBatterySessions", List(<<Num(1)>>)>> >>)}
    \cup {Obj(<< <<"smartBatterySessions", n>> >>) : n \in SessionNodes}

\* Exchanges that make a get_* call raise, and a partial response that
\* carries a non-sentinel error beside null data.
FailedExchanges ==
    {ConnectionFailed, HttpResponse(500, Body(None, List(<<ErrSentinel>>))),
     HttpResponse(200, Body(None, List(<<ErrSentinel>>)))}
PartialResponse == HttpResponse(200, Body(None, List(<<ErrBadCreds>>)))

SummaryResponses ==
    {HttpResponse(200, b) : b \in {None} \cup {Body(d, Absent) : d \in SummaryData}}
    \cup FailedExchanges \cup {PartialResponse}

SessionsResponses ==
    {HttpResponse(200, b) : b \in {None} \cup {Body(d, Absent) : d \in SessionsData}}
    \cup FailedExchanges \cup {PartialResponse}

\* What the coordinator serves to its readers.
Snapshot(c) == [summary |-> c.summary, sessions_node |-> c.sessions_node]

\* Polling starts with a client that holds the credential of the login in
\* async_setup_entry, and a coordinator fresh from its constructor; good is
\* what the most recent successful poll left.
InitPoll ==
    /\ auth \in {Obj(<< <<"authToken", Str("T1")>>, <<"refreshToken", Str("R1")>> >>)}
    /\ last = NoCall
    /\ setup = Idle
    /\ registered = <<>>
    /\ coordinators = <<Coordinator__init__(Str("d1"))>>
    /\ tick = [pc |-> "idle", good |-> Snapshot(Coordinator__init__(Str("d1")))]

\* One tick of the scheduler: _async_update_data runs to its end.
Poll ==
    /\ tick.pc = "idle"
    /\ \E r1 \in SummaryResponses, r2 \in SessionsResponses :
           LET u == _async_update_data(coordinators[1], auth, r1, r2)
           IN  /\ coordinators' = <<u.coord>>
               /\ tick' = [pc |-> "done",
                           good |-> IF u.out.exc = "none"
                                    THEN Snapshot(u.coord) ELSE tick.good,
                           before |-> Snapshot(coordinators[1]),
                           r1 |-> r1, r2 |-> r2,
                           fetched |-> _fetch(auth, coordinators[1].device_id, r1, r2).exc = "none",
                           out |-> u.out, warned |-> u.warned]
    /\ UNCHANGED <<auth, last, setup, registered>>

\* The scheduler waits for the next interval.
PollWait ==
    /\ tick.pc = "done"
    /\ tick' = [pc |-> "idle", good |-> tick.good]
    /\ UNCHANGED <<auth, last, setup, registered, coordinators>>

NextPoll == Poll \/ PollWait

SpecPoll == InitPoll /\ [][NextPoll]_vars

----------------------------------------------------------------------------
(* sensor.py: async_setup_entry *)

\* Entries of a smartBatteries list: two devices, an entry without id and an
\* entry that is no object.
BatteryEntries ==
    {Obj(<< <<"id", Str("d1")>> >>), Obj(<< <<"id", Str("d2")>> >>),
     Obj(<< <<"brand", Str("x")>> >>), Str("d3")}

\* The "data" member of a SmartBatteries response.
BatteriesData ==
    {Absent, None, EmptyDict, Obj(<< <<"smartBatteries", None>> >>)}
    \cup {Obj(<< <<"smartBatteries", List(q)>> >>) :
            q \in SeqsOf(BatteryEntries, 0, MaxDevices)}

BatteriesResponses ==
    {HttpResponse(200, b) : b \in {None} \cup {Body(d, Absent) : d \in BatteriesData}}
    \cup FailedExchanges \cup {PartialResponse}

\* The Login responses of a setup: a credential, a credential without auth
\* token, refused credentials, and the failed exchanges.
SetupLoginResponses ==
    {HttpResponse(200, Body(Obj(<< <<"login", p>> >>), Absent)) :
        p \in {Dict([authToken |-> Str("T1"), refreshToken |-> Str("R1")]),
               Dict([authToken |-> Str(""), refreshToken |-> Str("R1")])}}
    \cup {HttpResponse(200, Body(Obj(<< <<"login", None>> >>), List(<<ErrBadCreds>>))),
          HttpResponse(200, None)}
    \cup FailedExchanges

\* The responses of a first refresh.
SetupSummaryResponses ==
    {HttpResponse(200, Body(Obj(<< <<"smartBatterySummary", SummaryA>> >>), Absent)),
     HttpResponse(200, Body(None, Absent)),
     HttpResponse(500, None)}
SetupSessionsResponses ==
    {HttpResponse(200, Body(Obj(<< <<"smartBatterySessions",
        Dict([periodTradingResult |-> Num(42), sessions |-> List(<<Session10>>)])>> >>),
        Absent)),
     HttpResponse(200, Body(EmptyDict, Absent)),
     HttpResponse(200, Body(Obj(<< <<"smartBatterySessions", List(<<Num(1)>>)>> >>), Absent)),
     HttpResponse(200, Body(None, List(<<ErrSentinel>>))),
     ConnectionFailed}

\* b["id"] for the entries of q from entry i on: the ids, or the exception
\* the comprehension raises (TypeError on an entry that is no dict, KeyError
\* on a dict without id).
RECURSIVE IdsOf(_, _)
IdsOf(q, i) ==
    IF i > Len(q) THEN Returned(<<>>)
    ELSE IF ~IsDict(q[i]) THEN Raised("TypeError", None)
    ELSE IF ~Has(q[i], "id") THEN Raised("KeyError", Str("id"))
    ELSE LET rest == IdsOf(q, i + 1)
         IN  IF rest.exc # "none" THEN rest
             ELSE Returned(<<q[i].d["id"]>> \o rest.val)

\* [b["id"] for b in (batteries_resp.get("data") or {}).get("smartBatteries", [])]
\* for a response body that is None or a dict whose data member is None or a
\* dict: the ids, or the exception raised inside the try.
device_ids_of(batteries_resp) ==
    IF ~IsDict(batteries_resp) THEN Raised("AttributeError", Str("get"))
    ELSE LET bs == GetOr(Or(Get(batteries_resp, "data"), EmptyDict),
                         "smartBatteries", EmptyList)
         IN  IF bs.t = "list" THEN IdsOf(bs.l, 1) ELSE Raised("TypeError", None)

\* The two entities made for a device.
EntitiesOf(dev_id) ==
    <<[class |-> "FrankBatterySummarySensor", device_id |-> dev_id],
      [class |-> "FrankBatteryTradingResultSensor", device_id |-> dev_id]>>

\* The locals of async_setup_entry at a position pc.
SetupAt(pc, why) ==
    [pc |-> pc, why |-> why, device_ids |-> <<>>, entities |-> <<>>,
     add_calls |-> 0]

\* A setup starts with client = FrankEnergie().
InitSetup ==
    /\ auth = Client__init__(None, None)
    /\ last = NoCall
    /\ tick = Idle
    /\ coordinators = <<>>
    /\ registered = <<>>
    /\ setup = SetupAt("login", "")

\* auth = await hass.async_add_executor_job(_login_blocking), and the test
\* of its result.
SetupLogin ==
    /\ setup.pc = "login"
    /\ \E resp \in SetupLoginResponses :
           LET r == login(auth, resp)
           IN  /\ auth' = r.auth
               /\ setup' = IF r.out.exc # "none" THEN SetupAt("raised", "login")
                           ELSE IF ~Truthy(r.out.val) THEN SetupAt("returned", "login")
                           ELSE SetupAt("discover", "")
    /\ UNCHANGED <<last, coordinators, registered, tick>>

\* The discovery call, the parse of its response and the test for no device.
SetupDiscover ==
    /\ setup.pc = "discover"
    /\ \E resp \in BatteriesResponses :
           LET out == get_smart_batteries(auth, resp)
               ids == device_ids_of(out.val)
           IN  setup' = IF out.exc # "none" THEN SetupAt("raised", "discovery")
                        ELSE IF ids.exc # "none" THEN SetupAt("returned", "parse")
                        ELSE IF ids.val = <<>> THEN SetupAt("returned", "no device")
                        ELSE [setup EXCEPT !.pc = "refresh", !.device_ids = ids.val]
    /\ UNCHANGED <<auth, last, coordinators, registered, tick>>

\* A variant of the loop body that hands each device's entities to
\* async_add_entities as soon as its coordinator is ready.
SetupFirstRefresh_add_each ==
    /\ setup.pc = "refresh"
    /\ LET dev_id == setup.device_ids[Len(coordinators) + 1]
       IN  \E r1 \in SetupSummaryResponses, r2 \in SetupSessionsResponses :
               LET u == _async_update_data(Coordinator__init__(dev_id), auth, r1, r2)
                   ok == u.out.exc = "none"
               IN  /\ coordinators' =
                          Append(coordinators, u.coord @@ [last_update_success |-> ok])
                   /\ registered' = IF ok THEN registered \o EntitiesOf(dev_id)
                                    ELSE registered
                   /\ setup' =
                          IF ~ok THEN [setup EXCEPT !.pc = "raised", !.why = "refresh"]
                          ELSE [setup EXCEPT
                                  !.entities = @ \o EntitiesOf(dev_id),
                                  !.add_calls = @ + 1,
                                  !.pc = IF Len(coordinators) + 1 = Len(setup.device_ids)
                                         THEN "done" ELSE "refresh"]
    /\ UNCHANGED <<auth, last, tick>>

\* One turn of the loop over device_ids: the coordinator is made and
\* async_config_entry_first_refresh runs _async_update_data once; when that
\* raises, the first refresh raises ConfigEntryNotReady out of the setup,
\* else the device's two entities are appended.
SetupFirstRefresh ==
    /\ setup.pc = "refresh"
    /\ LET dev_id == setup.device_ids[Len(coordinators) + 1]
       IN  \E r1 \in SetupSummaryResponses, r2 \in SetupSessionsResponses :
               LET u == _async_update_data(Coordinator__init__(dev_id), auth, r1, r2)
                   ok == u.out.exc = "none"
               IN  /\ coordinators' =
                          Append(coordinators, u.coord @@ [last_update_success |-> ok])
                   /\ setup' =
                          IF ~ok THEN [setup EXCEPT !.pc = "raised", !.why = "refresh"]
                          ELSE [setup EXCEPT
                                  !.entities = @ \o EntitiesOf(dev_id),
                                  !.pc = IF Len(coordinators) + 1 = Len(setup.device_ids)
                                         THEN "add" ELSE "refresh"]
    /\ UNCHANGED <<auth, last, registered, tick>>

\* async_add_entities(entities)
SetupAddEntities ==
    /\ setup.pc = "add"
    /\ registered' = registered \o setup.entities
    /\ setup' = [setup EXCEPT !.pc = "done", !.add_calls = @ + 1]
    /\ UNCHANGED <<auth, last, coordinators, tick>>

NextSetup ==
    \/ SetupLogin
    \/ SetupDiscover
    \/ SetupFirstRefresh
    \/ SetupAddEntities

SpecSetup == InitSetup /\ [][NextSetup]_vars

----------------------------------------------------------------------------
(* Vocabulary of the client's properties *)

\* The call in last made an HTTP exchange that produced a response.
Exchanged == last.op # "none" /\ last.resp.conn = "ok"

\* The errors list of a body (the empty sequence when it has none).
ErrorsOf(body) ==
    IF IsDict(body) /\ Has(body, "errors") /\ body.d["errors"].t = "list"
    THEN body.d["errors"].l
    ELSE <<>>

IsSentinelEntry(e) ==
    IsDict(e) /\ Has(e, "message") /\ e.d["message"] = Str(AUTH_SENTINEL)

\* The body contains a GraphQL error whose message is the sentinel.
HasSentinelError(body) ==
    \E i \in 1..Len(ErrorsOf(body)) : IsSentinelEntry(ErrorsOf(body)[i])

\* Every errors entry before the first sentinel error is an object.
ObjectsBeforeSentinel(body) ==
    LET q == ErrorsOf(body)
        k == CHOOSE i \in 1..Len(q) :
                IsSentinelEntry(q[i]) /\ \A j \in 1..(i - 1) : ~IsSentinelEntry(q[j])
    IN  \A j \in 1..(k - 1) : IsDict(q[j])

\* The body carries a top-level errors list.
HasErrorsList(body) ==
    IsDict(body) /\ Has(body, "errors") /\ body.d["errors"].t = "list"

\* The login payload of a body: data.login when it is there and not null
\* or empty, None otherwise.
LoginPayloadOf(body) ==
    IF /\ IsDict(body)
       /\ Has(body, "data")
       /\ IsDict(body.d["data"])
       /\ Has(body.d["data"], "login")
       /\ Truthy(body.d["data"].d["login"])
    THEN body.d["data"].d["login"]
    ELSE None

----------------------------------------------------------------------------
(* Properties of the client *)

\* C1: in every client state in which is_authenticated() is false, each of
\* the four get_* methods raises the authentication error and no HTTP request
\* is sent.
C1_UnauthenticatedGetRaisesUnsent ==
    (last.op \in GetOps /\ ~is_authenticated(last.prev))
        => (IsAuthError(last.out) /\ ~last.out.sent)

\* C2, as claimed: a response whose body contains a GraphQL error with the
\* sentinel message makes the call raise the authentication error, whatever
\* the HTTP status is.
C2_SentinelRaisesAtAnyStatus ==
    (Exchanged /\ HasSentinelError(last.resp.body)) => IsAuthError(last.out)

\* C2, amended: a response whose body contains a GraphQL error with the
\* sentinel message makes the call raise the authentication error when the
\* HTTP status is below 400 and the scan reaches that error; with a 4xx or
\* 5xx status the call raises the transport error instead, and with an entry
\* that is no object before the sentinel error the scan raises AttributeError.
C2_SentinelRaisesBelow400 ==
    (Exchanged /\ HasSentinelError(last.resp.body)) =>
        IF last.resp.status >= 400
        THEN last.out.exc = "HTTPError"
        ELSE IF ObjectsBeforeSentinel(last.resp.body)
        THEN IsAuthError(last.out)
        ELSE last.out.exc = "AttributeError"

C2_Witness ==
    /\ last.op = "query"
    /\ last.resp.status = 200
    /\ HasSentinelError(last.resp.body)
    /\ Len(ErrorsOf(last.resp.body)) = 2
    /\ ~IsSentinelEntry(ErrorsOf(last.resp.body)[1])
    /\ IsAuthError(last.out)

\* C3: a response with HTTP status >= 400 makes the call raise the transport
\* error, and the body is never inspected: resp.json() is not called, the
\* errors are neither scanned nor logged, and no parsed data is returned.
C3_ErrorStatusRaisesUnparsed ==
    (Exchanged /\ last.resp.status >= 400) =>
        /\ last.out.exc = "HTTPError"
        /\ ~last.out.parsed
        /\ ~last.out.logged
        /\ last.out.val = None

C3_Witness ==
    /\ last.op = "query"
    /\ last.resp.status = 401
    /\ HasSentinelError(last.resp.body)
    /\ last.out.exc = "HTTPError"
    /\ ~last.out.parsed

\* What C4 expects login() to raise for a body without login payload: the
\* message of the first reported error, or the generic messages.
C4_Expected(body) ==
    IF Len(ErrorsOf(body)) > 0
    THEN GetOr(ErrorsOf(body)[1], "message", Str("Login failed"))
    ELSE Str("Login failed: empty response")

\* C4: a login() whose response contains no login payload raises an error
\* carrying the first reported error message (or the generic empty-response
\* message), and the held credential is the one held before the call. Stated
\* for the successful exchanges whose errors entries are all objects and none
\* the sentinel, where query() returns the body to login().
C4_LoginFailureCarriesFirstError ==
    (/\ last.op = "login"
     /\ Exchanged
     /\ last.resp.status = 200
     /\ IsDict(last.resp.body)
     /\ LoginPayloadOf(last.resp.body) = None
     /\ \A i \in 1..Len(ErrorsOf(last.resp.body)) :
            /\ IsDict(ErrorsOf(last.resp.body)[i])
            /\ ~IsSentinelEntry(ErrorsOf(last.resp.body)[i]))
        => /\ last.out.exc = "Exception"
           /\ last.out.msg = C4_Expected(last.resp.body)
           /\ auth = last.prev

\* C5: whenever login() returns, the held credential is the login payload of
\* the response, login() returned that same value, and is_authenticated() is
\* true.
C5_LoginSuccessAuthenticates ==
    (last.op = "login" /\ last.out.exc = "none")
        => /\ auth = LoginPayloadOf(last.resp.body)
           /\ last.out.val = auth
           /\ is_authenticated(auth)

\* C6: a successful HTTP exchange whose body carries an errors list without
\* the sentinel message makes query() return the parsed body unchanged,
\* whatever the entries of the list are.
C6_NonSentinelErrorsReturn ==
    (/\ last.op = "query"
     /\ Exchanged
     /\ last.resp.status < 400
     /\ HasErrorsList(last.resp.body)
     /\ ~HasSentinelError(last.resp.body))
        => (last.out.exc = "none" /\ last.out.val = last.resp.body)

----------------------------------------------------------------------------
(* Properties of the coordinator and the trading-result sensor *)

\* A member of the "data" object of a response body: None when the body, its
\* data or the member is missing or null.
DataMember(body, field) ==
    IF /\ IsDict(body)
       /\ Has(body, "data")
       /\ IsDict(body.d["data"])
       /\ Has(body.d["data"], field)
    THEN body.d["data"].d[field]
    ELSE None

\* The current trading result a Session Window w stands for: the aggregate
\* when it is there, else the cumulative result of the last session, else
\* nothing.
CurrentTradingResult(w) ==
    IF w = None THEN None
    ELSE IF w.d["periodTradingResult"].t # "None" THEN w.d["periodTradingResult"]
    ELSE IF Len(w.d["sessions"].l) = 0 THEN None
    ELSE LET sessions == w.d["sessions"].l
         IN  IF Has(sessions[Len(sessions)], "cumulativeResult")
             THEN sessions[Len(sessions)].d["cumulativeResult"]
             ELSE None

\* The sessions list of a node of the backend, the empty list when it is
\* missing or null.
SessionsOfNode(n) ==
    IF Has(n, "sessions") /\ n.d["sessions"].t = "list" THEN n.d["sessions"].l ELSE <<>>

\* The poll in tick returned and its sessions response had a node that is an
\* object with at least one member.
PolledNode ==
    /\ tick.pc = "done"
    /\ tick.out.exc = "none"
    /\ Truthy(DataMember(tick.r2.body, "smartBatterySessions"))

\* C7: the trading-result sensor reads, from every stored Session Window,
\* periodTradingResult when it is not null (0 included), whatever the
\* sessions are; otherwise the cumulativeResult of the last session when
\* there is one; otherwise nothing (also when no window is stored). The
\* window stored by a poll has the aggregate and the sessions of the node of
\* that poll's response.
C7_TradingResultDerivation ==
    /\ \A i \in 1..Len(coordinators) :
           TradingResult_state(coordinators[i])
               = CurrentTradingResult(coordinators[i].sessions_node)
    /\ PolledNode =>
           LET n == DataMember(tick.r2.body, "smartBatterySessions")
               w == coordinators[1].sessions_node
           IN  /\ w # None
               /\ w.d["periodTradingResult"]
                      = (IF Has(n, "periodTradingResult")
                         THEN n.d["periodTradingResult"] ELSE None)
               /\ w.d["sessions"].l = SessionsOfNode(n)

C7_Witness ==
    /\ PolledNode
    /\ coordinators[1].sessions_node.d["periodTradingResult"] = Num(0)
    /\ Len(coordinators[1].sessions_node.d["sessions"].l) = 2
    /\ TradingResult_state(coordinators[1]) = Num(0)

\* C8: a refresh in which both client calls return and the sessions response
\* lacks the smartBatterySessions node (no body, missing or null data,
\* missing, null or empty node) returns without raising, leaves no Session
\* Window stored whatever was stored before, logs the warning, and stores
\* the smartBatterySummary value of this poll's summary response.
C8_MissingNodeClearsWindow ==
    (/\ tick.pc = "done"
     /\ tick.fetched
     /\ ~Truthy(DataMember(tick.r2.body, "smartBatterySessions")))
        => /\ tick.out.exc = "none"
           /\ coordinators[1].sessions_node = None
           /\ tick.warned
           /\ coordinators[1].summary = DataMember(tick.r1.body, "smartBatterySummary")

C8_Witness ==
    /\ tick.pc = "done"
    /\ tick.fetched
    /\ tick.r2.body = Body(EmptyDict, Absent)
    /\ tick.before.sessions_node # None
    /\ tick.before.summary = SummaryA
    /\ coordinators[1].summary = SummaryB
    /\ coordinators[1].sessions_node = None
    /\ tick.warned

\* C9: a tick that fails leaves the stored Summary Snapshot and the stored
\* Session Window as the most recent successful poll left them: no failed
\* tick updates one of the two and leaves the other stale.
C9_FailedTickKeepsSnapshot ==
    (tick.pc = "done" /\ tick.out.exc # "none")
        => Snapshot(coordinators[1]) = tick.good

----------------------------------------------------------------------------
(* Properties of async_setup_entry *)

\* The setup ended without reaching async_add_entities.
SetupAborted == setup.pc \in {"raised", "returned"}

\* C10: setup is all-or-nothing. async_add_entities is called at most once,
\* and only after the login returned a credential, discovery gave at least
\* one device identifier and the first refresh of every discovered device's
\* coordinator succeeded; it is then handed exactly the two entities of each
\* discovered device, in discovery order. A setup that ended because login,
\* discovery, its parse or a first refresh failed has registered nothing.
C10_SetupAllOrNothing ==
    /\ setup.add_calls <= 1
    /\ setup.add_calls = 0 => registered = <<>>
    /\ SetupAborted => (setup.add_calls = 0 /\ registered = <<>>)
    /\ setup.add_calls = 1 =>
           /\ Truthy(auth)
           /\ Len(setup.device_ids) >= 1
           /\ Len(coordinators) = Len(setup.device_ids)
           /\ \A i \in 1..Len(coordinators) :
                  /\ coordinators[i].last_update_success
                  /\ coordinators[i].device_id = setup.device_ids[i]
           /\ Len(registered) = 2 * Len(setup.device_ids)
           /\ \A i \in 1..Len(setup.device_ids) :
                  /\ registered[2 * i - 1] =
                         [class |-> "FrankBatterySummarySensor",
                          device_id |-> setup.device_ids[i]]
                  /\ registered[2 * i] =
                         [class |-> "FrankBatteryTradingResultSensor",
                          device_id |-> setup.device_ids[i]]

C10_Witness ==
    /\ setup.pc = "done"
    /\ Len(setup.device_ids) = 2
    /\ Len(registered) = 4

=============================================================================
